---- MODULE Spec2Model ----
(***************************************************************************)
(* Model of raft.Peer (peer.go): the replication cursor prevLogIndex, the  *)
(* flush protocol (AppendEntries with an RPC/timeout race, Snapshot        *)
(* fallback), the heartbeat loop, stop() and clone().                      *)
(*                                                                         *)
(* The Server, its log, the Timer and the transporter are collaborators    *)
(* whose code is not part of peer.go; they are modelled at their interface *)
(* as the design document describes them.                                  *)
(***************************************************************************)
EXTENDS Integers, Sequences, FiniteSets, TLC

\* ------------------------------------------------------------------------
\* Bounds of the model
\* ------------------------------------------------------------------------
MaxIndex == 2
MaxTerm == 2
MaxFlushes == 2
MaxVotes == 2

\* Capacities of the node's shared channels (server.response, server.stepDown)
ResponseCap == 1
StepDownCap == 1

\* Capacity of respChan: make(chan *AppendEntriesResponse, 2)
RespChanCap == 2

\* Capacity of the response channel the caller hands to sendVoteRequest
VoteChanCap == 1

Indexes == 0..MaxIndex
Terms == 1..MaxTerm
FlushIds == 1..MaxFlushes

\* A nil pointer (request, response, snapshot, timer, clone).
Nil == [nil |-> TRUE]

PeerName == "peer1"

\* Another peer of the same server, and the peer field not yet set
OtherPeerName == "peer2"
NoPeer == "none"

\* error values
NoErr == "nil"
ErrRequestRequired == "raft.Peer: Request required"
ErrNetworkProblem == "Network problem"
ErrStepDown == "Step down"
ErrTransport == "transport error"

VARIABLES
    prevLogIndex,    \* Peer.prevLogIndex
    mutex,           \* Peer.mutex: "free", or the method holding it
    heartbeatTimer,  \* Peer.heartbeatTimer: "ready" or "stopped"
    pc,              \* position of the heartbeat() goroutine
    req,             \* the request of the flush of this iteration
    resp,            \* the response that flush received
    f,               \* the FlushResponse of the current iteration
    flushId,         \* number of respChan channels made so far
    respChan,        \* the respChan of the latest AppendEntries flush
    tasks,           \* the running race goroutines: [id, kind]
    snapCall,        \* the SendSnapshotRequest transport call in progress
    cloned,          \* the value returned by the last clone()
    direct,          \* result of the last direct call of a send path with nil
    currentTerm,     \* Server.currentTerm
    lastIndex,       \* index of the last entry of the server's log
    startIndex,      \* entries up to startIndex were discarded from the log
    commitIndex,     \* Server.log.CommitIndex()
    lastSnapshot,    \* Server's last snapshot, or Nil
    response,        \* Server.response channel
    stepDown,        \* Server.stepDown channel
    votePc,          \* position of the sendVoteRequest goroutine
    voteReq,         \* the req argument of sendVoteRequest
    voteResp,        \* the response SendVoteRequest handed back
    voteChan,        \* the channel c the caller passed to sendVoteRequest
    voteRuns,        \* number of sendVoteRequest invocations so far
    voteCalls        \* number of SendVoteRequest transport calls so far

peerVars == <<prevLogIndex, mutex, heartbeatTimer, cloned, direct>>
loopVars == <<pc, req, resp, f, flushId, respChan, tasks, snapCall>>
serverVars == <<currentTerm, lastIndex, startIndex, commitIndex, lastSnapshot>>
chanVars == <<response, stepDown>>
voteVars == <<votePc, voteReq, voteResp, voteChan, voteRuns, voteCalls>>
vars == <<prevLogIndex, mutex, heartbeatTimer, pc, req, resp, f, flushId, respChan,
          tasks, snapCall, cloned, direct, currentTerm, lastIndex, startIndex,
          commitIndex, lastSnapshot, response, stepDown, votePc, voteReq,
          voteResp, voteChan, voteRuns, voteCalls>>

\* ------------------------------------------------------------------------
\* Values
\* ------------------------------------------------------------------------

\* var f FlushResponse; f.peer = p
FlushResponse(term, success, err) ==
    [term |-> term, success |-> success, err |-> err, peer |-> PeerName]

\* the zero FlushResponse before `f.peer = p`
NoFlushResponse == [term |-> 0, success |-> FALSE, err |-> NoErr, peer |-> "none"]

\* The responses the transporter can hand back for an AppendEntries request
\* (CommitIndex is read on failure only).
AppendEntriesResponses ==
    [Success : {TRUE}, Term : Terms, CommitIndex : {0}]
        \cup [Success : {FALSE}, Term : Terms, CommitIndex : Indexes]

\* The responses the transporter can hand back for a Snapshot request.
SnapshotResponses == [Success : BOOLEAN, Term : Terms]

\* ------------------------------------------------------------------------
\* Server interface
\* ------------------------------------------------------------------------

\* Server.createAppendEntriesRequest(prevLogIndex): the entries after
\* prevLogIndex, or no request when the log no longer holds them.
createAppendEntriesRequest(prev) ==
    IF prev < startIndex
    THEN Nil
    ELSE [Entries |-> [i \in 1..(IF lastIndex > prev THEN lastIndex - prev ELSE 0)
                          |-> [Index |-> prev + i]]]

\* Server.createSnapshotRequest(): a request for the last snapshot, if any.
createSnapshotRequest ==
    IF lastSnapshot = Nil THEN Nil ELSE [LastIndex |-> lastSnapshot.LastIndex]

\* ------------------------------------------------------------------------
\* Pure parts of the send paths and of the loop
\* ------------------------------------------------------------------------

\* What a send path hands back to flush(): the (term, success, err) triple,
\* the value it leaves in prevLogIndex, and whether it panicked instead.
Outcome(prev, term, success, err) ==
    [prevLogIndex |-> prev, term |-> term, success |-> success, err |-> err,
     panic |-> FALSE]

Panicked(prev) ==
    [prevLogIndex |-> prev, term |-> 0, success |-> FALSE, err |-> NoErr,
     panic |-> TRUE]

\* The nil test left out: a nil request goes on to the transport.
RequestRequired_Never(rq) == FALSE

\* `if req == nil` at the head of sendFlushRequest and sendSnapshotRequest
RequestRequired(rq) == rq = Nil

\* The early return of both send paths for a nil request.
NilRequestOutcome(prev) == Outcome(prev, 0, FALSE, ErrRequestRequired)

\* sendFlushResult taking the index of the first entry of the request
\* instead of the last.
sendFlushResult_FirstEntry(rq, rsp, prev, term) ==
    IF rsp = Nil
    THEN Outcome(prev, 0, FALSE, ErrNetworkProblem)
    ELSE IF rsp.Success
         THEN IF Len(rq.Entries) > 0
              THEN Outcome(rq.Entries[1].Index, rsp.Term, TRUE, NoErr)
              ELSE Outcome(prev, rsp.Term, TRUE, NoErr)
         ELSE IF rsp.Term > term
              THEN Outcome(prev, rsp.Term, FALSE, ErrStepDown)
              ELSE IF rsp.CommitIndex > prev
                   THEN Outcome(rsp.CommitIndex, rsp.Term, FALSE, NoErr)
                   ELSE IF prev > 0
                        THEN Outcome(prev - 1, rsp.Term, FALSE, NoErr)
                        ELSE Outcome(prev, rsp.Term, FALSE, NoErr)

\* sendFlushResult decrementing without the `p.prevLogIndex > 0` test.
sendFlushResult_NoFloor(rq, rsp, prev, term) ==
    IF rsp = Nil
    THEN Outcome(prev, 0, FALSE, ErrNetworkProblem)
    ELSE IF rsp.Success
         THEN IF Len(rq.Entries) > 0
              THEN Outcome(rq.Entries[Len(rq.Entries)].Index, rsp.Term, TRUE, NoErr)
              ELSE Outcome(prev, rsp.Term, TRUE, NoErr)
         ELSE IF rsp.Term > term
              THEN Outcome(prev, rsp.Term, FALSE, ErrStepDown)
              ELSE IF rsp.CommitIndex > prev
                   THEN Outcome(rsp.CommitIndex, rsp.Term, FALSE, NoErr)
                   ELSE Outcome(prev - 1, rsp.Term, FALSE, NoErr)

\* sendFlushResult testing `p.prevLogIndex > 0` before the commit index.
sendFlushResult_DecrementFirst(rq, rsp, prev, term) ==
    IF rsp = Nil
    THEN Outcome(prev, 0, FALSE, ErrNetworkProblem)
    ELSE IF rsp.Success
         THEN IF Len(rq.Entries) > 0
              THEN Outcome(rq.Entries[Len(rq.Entries)].Index, rsp.Term, TRUE, NoErr)
              ELSE Outcome(prev, rsp.Term, TRUE, NoErr)
         ELSE IF rsp.Term > term
              THEN Outcome(prev, rsp.Term, FALSE, ErrStepDown)
              ELSE IF prev > 0
                   THEN Outcome(prev - 1, rsp.Term, FALSE, NoErr)
                   ELSE IF rsp.CommitIndex > prev
                        THEN Outcome(rsp.CommitIndex, rsp.Term, FALSE, NoErr)
                        ELSE Outcome(prev, rsp.Term, FALSE, NoErr)

\* sendFlushResult adjusting the index before the step-down test.
sendFlushResult_LateStepDown(rq, rsp, prev, term) ==
    IF rsp = Nil
    THEN Outcome(prev, 0, FALSE, ErrNetworkProblem)
    ELSE IF rsp.Success
         THEN IF Len(rq.Entries) > 0
              THEN Outcome(rq.Entries[Len(rq.Entries)].Index, rsp.Term, TRUE, NoErr)
              ELSE Outcome(prev, rsp.Term, TRUE, NoErr)
         ELSE LET adjusted == IF rsp.CommitIndex > prev THEN rsp.CommitIndex
                              ELSE IF prev > 0 THEN prev - 1 ELSE prev
              IN IF rsp.Term > term
                 THEN Outcome(adjusted, rsp.Term, FALSE, ErrStepDown)
                 ELSE Outcome(adjusted, rsp.Term, FALSE, NoErr)

\* sendFlushRequest after `resp := <-respChan`: rq is the request, rsp the
\* value received, prev the peer's prevLogIndex, term the server's
\* currentTerm as read by the step-down test.
sendFlushResult(rq, rsp, prev, term) ==
    IF rsp = Nil
    THEN Outcome(prev, 0, FALSE, ErrNetworkProblem)
    ELSE IF rsp.Success
         THEN IF Len(rq.Entries) > 0
              THEN Outcome(rq.Entries[Len(rq.Entries)].Index, rsp.Term, TRUE, NoErr)
              ELSE Outcome(prev, rsp.Term, TRUE, NoErr)
         ELSE IF rsp.Term > term
              THEN Outcome(prev, rsp.Term, FALSE, ErrStepDown)
              ELSE IF rsp.CommitIndex > prev
                   THEN Outcome(rsp.CommitIndex, rsp.Term, FALSE, NoErr)
                   ELSE IF prev > 0
                        THEN Outcome(prev - 1, rsp.Term, FALSE, NoErr)
                        ELSE Outcome(prev, rsp.Term, FALSE, NoErr)

\* sendSnapshotResult without the assignment to prevLogIndex.
sendSnapshotResult_KeepIndex(rq, rsp, err, prev) ==
    IF rsp = Nil
    THEN Outcome(prev, 0, FALSE, err)
    ELSE IF rsp.Success
         THEN Outcome(prev, rsp.Term, TRUE, err)
         ELSE Panicked(prev)

\* sendSnapshotRequest after the transport call returned (rsp, err).
sendSnapshotResult(rq, rsp, err, prev) ==
    IF rsp = Nil
    THEN Outcome(prev, 0, FALSE, err)
    ELSE IF rsp.Success
         THEN IF rq = Nil
              THEN Panicked(prev)
              ELSE Outcome(rq.LastIndex, rsp.Term, TRUE, err)
         ELSE Panicked(prev)

\* heartbeatBranch telling the commit center also when prevLogIndex equals
\* the commit index.
heartbeatBranch_GeCommit(fr, prev, commit, term) ==
    IF fr.success
    THEN IF prev >= commit THEN "commit" ELSE "next"
    ELSE IF fr.term > term THEN "stepdown" ELSE "next"

\* heartbeatBranch stepping down also on a term equal to the current term.
heartbeatBranch_GeTerm(fr, prev, commit, term) ==
    IF fr.success
    THEN IF prev > commit THEN "commit" ELSE "next"
    ELSE IF fr.term >= term THEN "stepdown" ELSE "next"

\* heartbeatBranch shutting the loop down on every failed flush.
heartbeatBranch_StopOnFailure(fr, prev, commit, term) ==
    IF fr.success
    THEN IF prev > commit THEN "commit" ELSE "next"
    ELSE "stepdown"

\* The branch heartbeat() takes on the FlushResponse fr: "commit" (send to
\* the commit center), "stepdown" (notify and return) or "next" (loop).
heartbeatBranch(fr, prev, commit, term) ==
    IF fr.success
    THEN IF prev > commit THEN "commit" ELSE "next"
    ELSE IF fr.term > term THEN "stepdown" ELSE "next"

\* cloneValue leaving prevLogIndex at its zero value.
cloneValue_NoIndex(name, prev) ==
    [name |-> name, prevLogIndex |-> 0, heartbeatTimer |-> Nil, server |-> Nil]

\* The peer clone() returns.
cloneValue(name, prev) ==
    [name |-> name, prevLogIndex |-> prev, heartbeatTimer |-> Nil, server |-> Nil]

\* ------------------------------------------------------------------------
\* Initial state: NewPeer, before StartHeartbeat
\* ------------------------------------------------------------------------
Init ==
    /\ prevLogIndex = 0
    /\ mutex = "free"
    /\ heartbeatTimer = "ready"
    /\ pc = "idle"
    /\ req = Nil
    /\ resp = Nil
    /\ f = NoFlushResponse
    /\ flushId = 0
    /\ respChan = <<>>
    /\ tasks = {}
    /\ snapCall = Nil
    /\ cloned = Nil
    /\ direct = Nil
    /\ currentTerm = 1
    /\ startIndex \in 0..1
    /\ lastIndex = startIndex
    /\ commitIndex = startIndex
    /\ lastSnapshot = Nil
    /\ response = <<>>
    /\ stepDown = <<>>
    /\ votePc = "idle"
    /\ voteReq = Nil
    /\ voteResp = Nil
    /\ voteChan = <<>>
    /\ voteRuns = 0
    /\ voteCalls = 0

\* ------------------------------------------------------------------------
\* The heartbeat loop
\* ------------------------------------------------------------------------

\* StartHeartbeat: go p.heartbeat()
StartHeartbeat ==
    /\ pc = "idle"
    /\ direct = Nil
    /\ pc' = "timer"
    /\ UNCHANGED <<peerVars, req, resp, f, flushId, respChan, tasks, snapCall,
                   serverVars, chanVars>>
    /\ UNCHANGED voteVars

\* heartbeatTimer.Start() returns true: the interval elapsed.
TimerFire ==
    /\ pc = "timer"
    /\ heartbeatTimer = "ready"
    /\ flushId < MaxFlushes
    /\ pc' = "flush"
    /\ f' = FlushResponse(0, FALSE, NoErr)
    /\ UNCHANGED <<peerVars, req, resp, flushId, respChan, tasks, snapCall,
                   serverVars, chanVars>>
    /\ UNCHANGED voteVars

\* heartbeatTimer.Start() returns false: the timer was stopped.
TimerStopped ==
    /\ pc = "timer"
    /\ heartbeatTimer = "stopped"
    /\ pc' = "done"
    /\ UNCHANGED <<peerVars, req, resp, f, flushId, respChan, tasks, snapCall,
                   serverVars, chanVars>>
    /\ UNCHANGED voteVars

\* flush() returns o to heartbeat(): f.term, f.success, f.err = p.flush().
\* req and resp keep the request and the response of the flush until the
\* iteration ends.
Return(o) ==
    /\ prevLogIndex' = o.prevLogIndex
    /\ IF o.panic
       THEN pc' = "panic" /\ f' = f
       ELSE pc' = "check" /\ f' = FlushResponse(o.term, o.success, o.err)

\* sendFlushRequest(rq) up to `resp := <-respChan`
sendFlushRequest(rq) ==
    IF RequestRequired(rq)
    THEN /\ Return(NilRequestOutcome(prevLogIndex))
         /\ req' = rq
         /\ UNCHANGED <<resp, flushId, respChan, tasks, snapCall>>
    ELSE /\ flushId' = flushId + 1
         /\ respChan' = <<>>
         /\ tasks' = tasks \cup {[id |-> flushId + 1, kind |-> "rpc"],
                                 [id |-> flushId + 1, kind |-> "timeout"]}
         /\ pc' = "recv"
         /\ req' = rq
         /\ UNCHANGED <<prevLogIndex, resp, f, snapCall>>

\* sendSnapshotRequest(rq) up to the transport call
sendSnapshotRequest(rq) ==
    IF RequestRequired(rq)
    THEN /\ Return(NilRequestOutcome(prevLogIndex))
         /\ req' = rq
         /\ UNCHANGED <<resp, flushId, respChan, tasks, snapCall>>
    ELSE /\ snapCall' = [req |-> rq]
         /\ pc' = "snapWait"
         /\ req' = rq
         /\ UNCHANGED <<prevLogIndex, resp, f, flushId, respChan, tasks>>

\* flush(): build the request and enter one of the send paths
Flush ==
    /\ pc = "flush"
    /\ LET rq == createAppendEntriesRequest(prevLogIndex) IN
       IF rq # Nil
       THEN sendFlushRequest(rq)
       ELSE sendSnapshotRequest(createSnapshotRequest)
    /\ UNCHANGED <<mutex, heartbeatTimer, cloned, direct, serverVars, chanVars>>
    /\ UNCHANGED voteVars

\* One respChan shared by all flushes: the channel of any goroutine is live
\* whenever the loop is receiving.
Live_Shared(id) == pc = "recv"

\* The respChan of flush number id is the channel the loop receives from
\* while that flush waits; afterwards only the losing goroutine refers to it.
Live(id) == id = flushId /\ pc = "recv"

\* `respChan <- r` by a race goroutine of flush number id: a write to the
\* channel of that flush, which nobody reads once the flush has returned.
Write(id, r) ==
    IF Live(id)
    THEN Len(respChan) < RespChanCap /\ respChan' = Append(respChan, r)
    ELSE respChan' = respChan

\* The goroutine that calls SendAppendEntriesRequest: the transport returns
\* r (possibly nil) and the goroutine writes it to its respChan.
RpcReturn(id, r) ==
    /\ [id |-> id, kind |-> "rpc"] \in tasks
    /\ Write(id, r)
    /\ tasks' = tasks \ {[id |-> id, kind |-> "rpc"]}
    /\ UNCHANGED <<peerVars, pc, req, resp, f, flushId, snapCall, serverVars,
                   chanVars>>
    /\ UNCHANGED voteVars

\* The goroutine that waits for time.After(heartbeatTimeout) and writes nil.
TimeoutFire(id) ==
    /\ [id |-> id, kind |-> "timeout"] \in tasks
    /\ Write(id, Nil)
    /\ tasks' = tasks \ {[id |-> id, kind |-> "timeout"]}
    /\ UNCHANGED <<peerVars, pc, req, resp, f, flushId, snapCall, serverVars,
                   chanVars>>
    /\ UNCHANGED voteVars

\* resp := <-respChan and the rest of sendFlushRequest
Receive ==
    /\ pc = "recv"
    /\ respChan # <<>>
    /\ respChan' = <<>>
    /\ resp' = Head(respChan)
    /\ Return(sendFlushResult(req, Head(respChan), prevLogIndex, currentTerm))
    /\ UNCHANGED <<mutex, heartbeatTimer, cloned, direct, req, flushId, tasks,
                   snapCall, serverVars, chanVars>>
    /\ UNCHANGED voteVars

\* SendSnapshotRequest returns (resp, err) and sendSnapshotRequest finishes
SnapshotReturn(r, err) ==
    /\ pc = "snapWait"
    /\ snapCall # Nil
    /\ snapCall' = Nil
    /\ resp' = r
    /\ Return(sendSnapshotResult(snapCall.req, r, err, prevLogIndex))
    /\ UNCHANGED <<mutex, heartbeatTimer, cloned, direct, req, flushId, respChan,
                   tasks, serverVars, chanVars>>
    /\ UNCHANGED voteVars

\* heartbeat() after flush(): the tests on f
HeartbeatCheck ==
    /\ pc = "check"
    /\ LET b == heartbeatBranch(f, prevLogIndex, commitIndex, currentTerm) IN
       /\ pc' = CASE b = "commit" -> "sendCommit"
                  [] b = "stepdown" -> "done"
                  [] OTHER -> "timer"
       /\ stepDown' = IF b = "stepdown" /\ Len(stepDown) < StepDownCap
                      THEN Append(stepDown, f.term)
                      ELSE stepDown
       /\ f' = IF b = "commit" THEN f ELSE NoFlushResponse
    /\ req' = Nil
    /\ resp' = Nil
    /\ UNCHANGED <<peerVars, flushId, respChan, tasks, snapCall, serverVars,
                   response>>
    /\ UNCHANGED voteVars

\* p.server.response <- f
SendCommit ==
    /\ pc = "sendCommit"
    /\ Len(response) < ResponseCap
    /\ response' = Append(response, f)
    /\ pc' = "timer"
    /\ f' = NoFlushResponse
    /\ UNCHANGED <<peerVars, req, resp, flushId, respChan, tasks, snapCall,
                   serverVars, stepDown>>
    /\ UNCHANGED voteVars

\* ------------------------------------------------------------------------
\* stop(), clone() and direct calls of the send paths
\* ------------------------------------------------------------------------

\* p.mutex.Lock() in stop() or clone()
Lock(who) ==
    /\ mutex = "free"
    /\ mutex' = who
    /\ UNCHANGED <<prevLogIndex, heartbeatTimer, cloned, direct, loopVars,
                   serverVars, chanVars>>
    /\ UNCHANGED voteVars

\* stop() that waits for the heartbeat loop to be outside a flush and outside
\* the commit send before it stops the timer.
Stop_WaitsForLoop ==
    /\ mutex = "stop"
    /\ pc \notin {"flush", "recv", "snapWait", "sendCommit"}
    /\ heartbeatTimer' = "stopped"
    /\ mutex' = "free"
    /\ UNCHANGED <<prevLogIndex, cloned, direct, loopVars, serverVars, chanVars>>
    /\ UNCHANGED voteVars

\* stop(): p.heartbeatTimer.Stop(), then the deferred Unlock
Stop ==
    /\ mutex = "stop"
    /\ heartbeatTimer' = "stopped"
    /\ mutex' = "free"
    /\ UNCHANGED <<prevLogIndex, cloned, direct, loopVars, serverVars, chanVars>>
    /\ UNCHANGED voteVars

\* clone(): build the copy, then the deferred Unlock
Clone ==
    /\ mutex = "clone"
    /\ cloned' = cloneValue(PeerName, prevLogIndex)
    /\ mutex' = "free"
    /\ UNCHANGED <<prevLogIndex, heartbeatTimer, direct, loopVars, serverVars,
                   chanVars>>
    /\ UNCHANGED voteVars

\* sendFlushRequest(nil) or sendSnapshotRequest(nil) called on its own, on a
\* peer whose heartbeat loop is not running
SendNil(path) ==
    /\ pc \in {"idle", "done"}
    /\ direct = Nil
    /\ direct' = IF RequestRequired(Nil)
                 THEN [path |-> path, returned |-> TRUE,
                       outcome |-> NilRequestOutcome(prevLogIndex)]
                 ELSE [path |-> path, returned |-> FALSE,
                       outcome |-> Panicked(prevLogIndex)]
    /\ UNCHANGED <<prevLogIndex, mutex, heartbeatTimer, cloned, loopVars,
                   serverVars, chanVars>>
    /\ UNCHANGED voteVars

\* the caller of the send path takes its result
SendNilReturn ==
    /\ direct # Nil
    /\ direct' = Nil
    /\ UNCHANGED <<prevLogIndex, mutex, heartbeatTimer, cloned, loopVars,
                   serverVars, chanVars>>
    /\ UNCHANGED voteVars

\* ------------------------------------------------------------------------
\* The node and the other peers
\* ------------------------------------------------------------------------

\* the server appends an entry to its log
AppendEntry ==
    /\ lastIndex < MaxIndex
    /\ lastIndex' = lastIndex + 1
    /\ UNCHANGED <<peerVars, loopVars, currentTerm, startIndex, commitIndex,
                   lastSnapshot, chanVars>>
    /\ UNCHANGED voteVars

\* the server advances its commit index
AdvanceCommit ==
    /\ commitIndex < lastIndex
    /\ commitIndex' = commitIndex + 1
    /\ UNCHANGED <<peerVars, loopVars, currentTerm, startIndex, lastIndex,
                   lastSnapshot, chanVars>>
    /\ UNCHANGED voteVars

\* the server takes a snapshot up to its commit index and compacts the log
TakeSnapshot ==
    /\ commitIndex > startIndex
    /\ lastSnapshot' = [LastIndex |-> commitIndex]
    /\ startIndex' = commitIndex
    /\ UNCHANGED <<peerVars, loopVars, currentTerm, lastIndex, commitIndex,
                   chanVars>>
    /\ UNCHANGED voteVars

\* the server learns of a higher term
IncTerm ==
    /\ currentTerm < MaxTerm
    /\ currentTerm' = currentTerm + 1
    /\ UNCHANGED <<peerVars, loopVars, startIndex, lastIndex, commitIndex,
                   lastSnapshot, chanVars>>
    /\ UNCHANGED voteVars

\* the commit center receives from server.response
ConsumeResponse ==
    /\ response # <<>>
    /\ response' = Tail(response)
    /\ UNCHANGED <<peerVars, loopVars, serverVars, stepDown>>
    /\ UNCHANGED voteVars

\* the server receives from server.stepDown
ConsumeStepDown ==
    /\ stepDown # <<>>
    /\ stepDown' = Tail(stepDown)
    /\ UNCHANGED <<peerVars, loopVars, serverVars, response>>
    /\ UNCHANGED voteVars

\* another peer's heartbeat loop notifies a step-down to a term it saw
OtherPeerStepDown(t) ==
    /\ t > currentTerm
    /\ Len(stepDown) < StepDownCap
    /\ stepDown' = Append(stepDown, t)
    /\ UNCHANGED <<peerVars, loopVars, serverVars, response>>
    /\ UNCHANGED voteVars

\* ------------------------------------------------------------------------
\* Vote dispatch
\* ------------------------------------------------------------------------

\* The RequestVoteRequest the candidate server builds for its term; the
\* peer field is not set yet.
RequestVoteRequest(term) == [Term |-> term, peer |-> NoPeer]

\* The responses the transporter can hand back for a vote request.
RequestVoteResponses == [Term : Terms, VoteGranted : BOOLEAN, peer : {NoPeer}]

\* sendVoteRequest(req, c) up to the transport call: req.peer = p, then
\* SendVoteRequest(p.server, p, req) is entered.
sendVoteRequest(rq) ==
    /\ votePc = "idle"
    /\ voteRuns < MaxVotes
    /\ voteRuns' = voteRuns + 1
    /\ voteReq' = [rq EXCEPT !.peer = PeerName]
    /\ voteCalls' = voteCalls + 1
    /\ votePc' = "call"
    /\ UNCHANGED <<voteResp, voteChan>>
    /\ UNCHANGED <<peerVars, loopVars, serverVars, chanVars>>

\* SendVoteRequest that is called again when it handed back nil.
VoteReturn_Retry(r, err) ==
    /\ votePc = "call"
    /\ IF r # Nil
       THEN /\ voteResp' = [r EXCEPT !.peer = PeerName]
            /\ votePc' = "send"
            /\ voteCalls' = voteCalls
       ELSE /\ voteResp' = Nil
            /\ votePc' = "call"
            /\ voteCalls' = voteCalls + 1
    /\ UNCHANGED <<voteReq, voteChan, voteRuns>>
    /\ UNCHANGED <<peerVars, loopVars, serverVars, chanVars>>

\* SendVoteRequest returns (r, err); err is dropped and only r is tested:
\* a non-nil r gets resp.peer = p and goes to the send, nil ends the call.
VoteReturn(r, err) ==
    /\ votePc = "call"
    /\ IF r # Nil
       THEN /\ voteResp' = [r EXCEPT !.peer = PeerName]
            /\ votePc' = "send"
       ELSE /\ voteResp' = Nil
            /\ votePc' = "done"
    /\ UNCHANGED <<voteReq, voteChan, voteRuns, voteCalls>>
    /\ UNCHANGED <<peerVars, loopVars, serverVars, chanVars>>

\* The send that gives up when the channel has no room.
VoteSend_Drop ==
    /\ votePc = "send"
    /\ voteChan' = IF Len(voteChan) < VoteChanCap
                   THEN Append(voteChan, voteResp)
                   ELSE voteChan
    /\ votePc' = "done"
    /\ UNCHANGED <<voteReq, voteResp, voteRuns, voteCalls>>
    /\ UNCHANGED <<peerVars, loopVars, serverVars, chanVars>>

\* c <- resp
VoteSend ==
    /\ votePc = "send"
    /\ Len(voteChan) < VoteChanCap
    /\ voteChan' = Append(voteChan, voteResp)
    /\ votePc' = "done"
    /\ UNCHANGED <<voteReq, voteResp, voteRuns, voteCalls>>
    /\ UNCHANGED <<peerVars, loopVars, serverVars, chanVars>>

\* sendVoteRequest has returned; the server may dispatch another vote.
VoteExit ==
    /\ votePc = "done"
    /\ votePc' = "idle"
    /\ voteReq' = Nil
    /\ voteResp' = Nil
    /\ UNCHANGED <<voteChan, voteRuns, voteCalls>>
    /\ UNCHANGED <<peerVars, loopVars, serverVars, chanVars>>

\* the candidate receives a response from c
ReceiveVote ==
    /\ voteChan # <<>>
    /\ voteChan' = Tail(voteChan)
    /\ UNCHANGED <<votePc, voteReq, voteResp, voteRuns, voteCalls>>
    /\ UNCHANGED <<peerVars, loopVars, serverVars, chanVars>>

\* the sendVoteRequest of another peer puts its response on the same c
OtherPeerVote(r) ==
    /\ Len(voteChan) < VoteChanCap
    /\ voteChan' = Append(voteChan, [r EXCEPT !.peer = OtherPeerName])
    /\ UNCHANGED <<votePc, voteReq, voteResp, voteRuns, voteCalls>>
    /\ UNCHANGED <<peerVars, loopVars, serverVars, chanVars>>

\* ------------------------------------------------------------------------
Next ==
    \/ StartHeartbeat
    \/ TimerFire
    \/ TimerStopped
    \/ Flush
    \/ \E id \in FlushIds : \E r \in AppendEntriesResponses \cup {Nil} : RpcReturn(id, r)
    \/ \E id \in FlushIds : TimeoutFire(id)
    \/ Receive
    \/ \E r \in SnapshotResponses : SnapshotReturn(r, NoErr)
    \/ \E e \in {NoErr, ErrTransport} : SnapshotReturn(Nil, e)
    \/ HeartbeatCheck
    \/ SendCommit
    \/ \E who \in {"stop", "clone"} : Lock(who)
    \/ Stop
    \/ Clone
    \/ \E path \in {"sendFlushRequest", "sendSnapshotRequest"} : SendNil(path)
    \/ SendNilReturn
    \/ AppendEntry
    \/ AdvanceCommit
    \/ TakeSnapshot
    \/ IncTerm
    \/ ConsumeResponse
    \/ ConsumeStepDown
    \/ \E t \in Terms : OtherPeerStepDown(t)

Spec == Init /\ [][Next]_vars

\* The peer of a candidate server: vote dispatch, the candidate reading the
\* responses, the other peers answering, and the server's term and log.
VoteNext ==
    \/ sendVoteRequest(RequestVoteRequest(currentTerm))
    \/ \E r \in RequestVoteResponses : \E e \in {NoErr, ErrTransport} : VoteReturn(r, e)
    \/ \E e \in {NoErr, ErrTransport} : VoteReturn(Nil, e)
    \/ VoteSend
    \/ VoteExit
    \/ ReceiveVote
    \/ \E r \in RequestVoteResponses : OtherPeerVote(r)
    \/ IncTerm
    \/ AppendEntry
    \/ \E who \in {"stop", "clone"} : Lock(who)
    \/ Stop
    \/ Clone

VoteSpec == Init /\ [][VoteNext]_vars

\* ------------------------------------------------------------------------
\* Properties
\* ------------------------------------------------------------------------

\* The step in which the waiting AppendEntries flush takes a value from its
\* respChan and returns; the value taken is Head(respChan).
ReceiveStep == pc = "recv" /\ pc' # "recv"

\* The value taken is a non-nil response with Success=false.
FailedResponse(r) == r # Nil /\ ~r.Success

\* C1: a flush that gets a non-nil response with Success=true and whose
\* request carries entries leaves prevLogIndex equal to the Index of the
\* last entry of its request, and does not lower prevLogIndex; a successful
\* flush whose request carries no entries leaves prevLogIndex unchanged.
C1_MonotonicAdvance ==
    [][(ReceiveStep /\ Head(respChan) # Nil /\ Head(respChan).Success) =>
          IF Len(req.Entries) > 0
          THEN /\ prevLogIndex' = req.Entries[Len(req.Entries)].Index
               /\ prevLogIndex' >= prevLogIndex
          ELSE prevLogIndex' = prevLogIndex]_vars

\* A successful flush of two entries has just moved prevLogIndex from 0 to
\* the index of the second one.
C1_Witness ==
    /\ pc = "check"
    /\ f.success
    /\ req # Nil
    /\ resp # Nil
    /\ flushId = 1
    /\ lastSnapshot = Nil
    /\ Len(req.Entries) = 2
    /\ prevLogIndex = req.Entries[2].Index
    /\ prevLogIndex = 2

C3_CommitIndexCorrection ==
    [][(/\ ReceiveStep
        /\ FailedResponse(Head(respChan))
        /\ Head(respChan).Term <= currentTerm
        /\ Head(respChan).CommitIndex > prevLogIndex) =>
          prevLogIndex' = Head(respChan).CommitIndex]_vars

\* A failed response with commit index 2 has just been handled and
\* prevLogIndex is 2: had it been 2 or more before, it would be lower now.
C3_Witness ==
    /\ pc = "check"
    /\ FailedResponse(resp)
    /\ f.err = NoErr
    /\ resp.CommitIndex = 2
    /\ prevLogIndex = 2

\* C4: on a non-nil response with Success=false and Term > currentTerm the
\* flush returns (response Term, false, "Step down") and leaves
\* prevLogIndex unchanged, whatever the response's CommitIndex.
C4_StepDownShortCircuit ==
    [][(/\ ReceiveStep
        /\ FailedResponse(Head(respChan))
        /\ Head(respChan).Term > currentTerm) =>
          /\ pc' = "check"
          /\ f' = FlushResponse(Head(respChan).Term, FALSE, ErrStepDown)
          /\ prevLogIndex' = prevLogIndex]_vars

\* A flush has just returned the step-down outcome although the response's
\* commit index is above prevLogIndex.
C4_Witness ==
    /\ pc = "check"
    /\ f.err = ErrStepDown
    /\ ~f.success
    /\ FailedResponse(resp)
    /\ f.term = resp.Term
    /\ resp.CommitIndex > prevLogIndex

\* C5: when a flush has returned the step-down outcome, the next step of
\* the loop is its termination, with at most one (non-blocking) send of
\* that term on the step-down channel, whatever the node did to its
\* current term in between.
C5_StepDownTerminates ==
    [][(pc = "check" /\ f.err = ErrStepDown /\ pc' # pc) =>
          /\ pc' = "done"
          /\ \/ stepDown' = stepDown
             \/ stepDown' = Append(stepDown, f.term)]_vars

\* A race goroutine of a flush that has already returned hands over the
\* transport's answer.
LateRpc ==
    \E id \in FlushIds :
        /\ [id |-> id, kind |-> "rpc"] \in tasks
        /\ ~Live(id)
        /\ tasks' = tasks \ {[id |-> id, kind |-> "rpc"]}

\* C6: a flush that takes nil from its respChan (the timeout wrote first, or
\* the transport handed back nil) returns (0, false, "Network problem") and
\* leaves prevLogIndex and both node channels alone; the loop then goes to
\* its timer wait without a signal; an RPC answer that arrives after the
\* flush returned changes nothing of the peer or the loop.
C6_TimeoutRace ==
    /\ [][(ReceiveStep /\ Head(respChan) = Nil) =>
             /\ pc' = "check"
             /\ f' = FlushResponse(0, FALSE, ErrNetworkProblem)
             /\ UNCHANGED <<prevLogIndex, response, stepDown>>]_vars
    /\ [][(pc = "check" /\ f.err = ErrNetworkProblem /\ pc' # pc) =>
             /\ pc' = "timer"
             /\ UNCHANGED <<prevLogIndex, response, stepDown>>]_vars
    /\ [][LateRpc =>
             UNCHANGED <<prevLogIndex, pc, f, respChan, response, stepDown>>]_vars

\* A flush has just returned the network-problem error while its RPC
\* goroutine is still waiting for the transport.
C6_Witness ==
    /\ pc = "check"
    /\ f = FlushResponse(0, FALSE, ErrNetworkProblem)
    /\ resp = Nil
    /\ [id |-> flushId, kind |-> "rpc"] \in tasks

\* C7: a flush enters the AppendEntries path exactly when
\* createAppendEntriesRequest hands back a request and otherwise the
\* Snapshot path, never both; a successful Snapshot response leaves
\* prevLogIndex equal to the request's LastIndex.
C7_OnePath ==
    /\ [](~(snapCall # Nil /\ \E t \in tasks : Live(t.id)))
    /\ [][(pc = "flush" /\ pc' # pc) =>
             LET rq == createAppendEntriesRequest(prevLogIndex)
                 sq == createSnapshotRequest
             IN  IF rq # Nil
                 THEN /\ pc' = "recv"
                      /\ req' = rq
                      /\ snapCall' = Nil
                      /\ tasks' = tasks \cup {[id |-> flushId', kind |-> "rpc"],
                                              [id |-> flushId', kind |-> "timeout"]}
                 ELSE /\ tasks' = tasks
                      /\ flushId' = flushId
                      /\ IF sq # Nil
                         THEN pc' = "snapWait" /\ snapCall' = [req |-> sq]
                         ELSE snapCall' = Nil]_vars
    /\ [][(pc = "snapWait" /\ pc' # pc /\ resp' # Nil /\ resp'.Success) =>
             /\ pc' = "check"
             /\ f'.success
             /\ prevLogIndex' = req.LastIndex]_vars

\* A Snapshot flush has just succeeded and prevLogIndex is the LastIndex of
\* its request.
C7_Witness ==
    /\ pc = "check"
    /\ f.success
    /\ resp # Nil
    /\ req = [LastIndex |-> prevLogIndex]
    /\ prevLogIndex > 0
    /\ snapCall = Nil

\* C8: a send path called with a nil request returns (0, false, "Request
\* required"), starts no transport call and no race goroutine and leaves
\* prevLogIndex alone, both in a flush for which the node has neither
\* request and in a call of its own.
C8_NilRequestGuard ==
    /\ [][(/\ pc = "flush"
           /\ pc' # pc
           /\ createAppendEntriesRequest(prevLogIndex) = Nil
           /\ createSnapshotRequest = Nil) =>
             /\ pc' = "check"
             /\ f' = FlushResponse(0, FALSE, ErrRequestRequired)
             /\ UNCHANGED <<prevLogIndex, tasks, respChan, snapCall, flushId>>]_vars
    /\ [][(direct = Nil /\ direct' # Nil) =>
             /\ direct'.returned
             /\ direct'.outcome = [prevLogIndex |-> prevLogIndex, term |-> 0,
                                   success |-> FALSE, err |-> ErrRequestRequired,
                                   panic |-> FALSE]
             /\ UNCHANGED <<prevLogIndex, pc, tasks, respChan, snapCall, flushId>>]_vars

\* A flush for which the node had neither request has just returned the
\* request-required error, with no transport call and no goroutine started.
C8_Witness ==
    /\ pc = "check"
    /\ f = FlushResponse(0, FALSE, ErrRequestRequired)
    /\ req = Nil
    /\ tasks = {}
    /\ snapCall = Nil
    /\ flushId = 0

\* The step in which clone() returns.
CloneStep == mutex = "clone" /\ mutex' = "free"

\* C9: clone() returns a peer with the original's name and its prevLogIndex
\* of that moment, without timer or server, and changes nothing of the
\* original or its loop; no other step changes the clone.
C9_CloneIsolation ==
    /\ [][CloneStep =>
             /\ cloned' = [name |-> PeerName, prevLogIndex |-> prevLogIndex,
                           heartbeatTimer |-> Nil, server |-> Nil]
             /\ UNCHANGED <<prevLogIndex, heartbeatTimer, loopVars, chanVars>>]_vars
    /\ [][~CloneStep => cloned' = cloned]_vars

\* A clone taken earlier differs from the original, which a later flush
\* moved on, while the loop waits in a flush and another clone() holds the
\* mutex.
C9_Witness ==
    /\ cloned # Nil
    /\ cloned.name = PeerName
    /\ cloned.prevLogIndex # prevLogIndex
    /\ pc = "recv"
    /\ mutex = "clone"

\* C10: the loop leaves heartbeat() only when Start() hands back false
\* (the timer was stopped) or on a step-down.
C10_ExitsOnlyByStopOrStepDown ==
    [][(pc \notin {"done", "panic"} /\ pc' \in {"done", "panic"}) =>
          \/ pc = "timer" /\ heartbeatTimer = "stopped"
          \/ pc = "check" /\ ~f.success /\ f.term > currentTerm]_vars

\* C12: the loop goes to the send on the commit-notification channel
\* exactly when the flush returned success and prevLogIndex is above the
\* log's commit index; whatever is added to that channel is the loop's
\* FlushResponse, with success=true and this peer; from the send the loop
\* only moves on, to the timer, once the channel has taken the response.
C12_CommitSignal ==
    /\ [][(pc = "check" /\ pc' # pc) =>
             ((pc' = "sendCommit") <=> (f.success /\ prevLogIndex > commitIndex))]_vars
    /\ [][(Len(response') > Len(response)) =>
             /\ pc = "sendCommit"
             /\ pc' = "timer"
             /\ response' = Append(response, f)
             /\ f.success
             /\ f.peer = PeerName]_vars
    /\ [][(pc = "sendCommit" /\ pc' # pc) =>
             /\ pc' = "timer"
             /\ Len(response) < ResponseCap
             /\ response' = Append(response, f)]_vars

\* The loop waits to send a second FlushResponse while the first, sent
\* after an earlier successful flush, is still in the channel.
C12_Witness ==
    /\ pc = "sendCommit"
    /\ f.success
    /\ prevLogIndex > commitIndex
    /\ response # <<>>
    /\ response[1].success
    /\ response[1].peer = PeerName

\* C13: after a flush that failed without the step-down outcome (network
\* problem, nil response, nil request, or a log mismatch with a term not
\* above the current one) the loop goes back to the timer wait and sends
\* nothing on either node channel.
C13_FailureAbsorbed ==
    [][(pc = "check" /\ ~f.success /\ f.err # ErrStepDown /\ pc' # pc) =>
          /\ pc' = "timer"
          /\ UNCHANGED <<prevLogIndex, response, stepDown>>]_vars

\* A flush has just returned a log mismatch whose term equals the node's
\* current term.
C13_Witness ==
    /\ pc = "check"
    /\ FailedResponse(resp)
    /\ ~f.success
    /\ f.err = NoErr
    /\ f.term = currentTerm

\* C14: prevLogIndex is read and written only under the peer's mutex: while
\* clone() holds the mutex for its read no flush writes prevLogIndex, and a
\* write of prevLogIndex is made by a holder of the mutex.
C14_SerializedAccess ==
    /\ [][mutex = "clone" => prevLogIndex' = prevLogIndex]_vars
    /\ [][prevLogIndex' # prevLogIndex => mutex # "free"]_vars

\* C15: a non-nil Snapshot response with Success=false makes the flush
\* return (response Term, false, err) with prevLogIndex unchanged, and the
\* heartbeat loop never ends in a fault.
C15_SnapshotFailureReturns ==
    /\ [][(pc = "snapWait" /\ pc' # pc /\ FailedResponse(resp')) =>
              /\ pc' = "check"
              /\ f'.term = resp'.Term
              /\ ~f'.success
              /\ prevLogIndex' = prevLogIndex]_vars
    /\ [](pc # "panic")

\* C16: a flush waiting for the transport always has its way out that does
\* not depend on the transport: on the AppendEntries path and on the
\* Snapshot path alike, either a result is already in the flush's channel
\* or the timeout goroutine of this flush is still to write one, so the
\* flush returns within the heartbeat timeout.
C16_FlushTimeoutBounded ==
    (pc \in {"recv", "snapWait"}) =>
        \/ respChan # <<>>
        \/ [id |-> flushId, kind |-> "timeout"] \in tasks

\* C17: while an AppendEntries flush waits, the values in its respChan and
\* its two goroutines still to write add up to the capacity 2, so neither
\* write blocks; a value enters the channel only from a goroutine of the
\* flush that is waiting, never from the loser of an earlier flush; the
\* flush takes one value, the first one, and returns.
C17_PrivateRaceChannel ==
    /\ [](pc = "recv" =>
            Len(respChan) + Cardinality({t \in tasks : t.id = flushId})
                = RespChanCap)
    /\ [][(Len(respChan') > Len(respChan)) =>
              /\ pc = "recv"
              /\ \E t \in tasks :
                    /\ t.id = flushId
                    /\ tasks' = tasks \ {t}
                    /\ t.kind = "timeout" => respChan' = Append(respChan, Nil)
                    /\ Len(respChan') = Len(respChan) + 1]_vars
    /\ [][ReceiveStep =>
              /\ resp' = Head(respChan)
              /\ pc' \in {"check", "panic"}
              /\ UNCHANGED <<flushId, tasks>>]_vars

\* The second flush waits with both of its goroutines' values in its
\* respChan while the RPC goroutine of the first flush has yet to write.
C17_Witness ==
    /\ pc = "recv"
    /\ flushId = 2
    /\ Len(respChan) = RespChanCap
    /\ [id |-> 1, kind |-> "rpc"] \in tasks

\* C18: once stop() has returned, the heartbeat loop acts on no flush
\* result: it adds nothing to the commit-notification channel, makes no
\* step-down send, and starts no new flush.
C18_StoppedLoopIsSilent ==
    [][(heartbeatTimer = "stopped" /\ pc' # pc) =>
          /\ response' = response
          /\ stepDown' = stepDown
          /\ pc' \notin {"sendCommit", "flush"}
          /\ (pc = "check" => pc' = "timer")]_vars

\* C20: no step of the heartbeat loop takes or releases the peer's mutex,
\* which is only ever free or held by stop() or by clone(); a free mutex
\* can be taken by either of them, and the holder can finish and release
\* it whatever the loop is doing, so stop(), clone() and the loop never
\* wait on each other.
C20_LoopNeverHoldsMutex ==
    /\ [][pc' # pc => mutex' = mutex]_vars
    /\ [](mutex \in {"free", "stop", "clone"})
    /\ [](mutex = "free" => ENABLED Lock("stop") /\ ENABLED Lock("clone"))
    /\ [](mutex = "stop" => ENABLED Stop)
    /\ [](mutex = "clone" => ENABLED Clone)

\* stop() holds the mutex while the loop is blocked on the send to a full
\* commit-notification channel.
C20_Witness ==
    /\ mutex = "stop"
    /\ pc = "sendCommit"
    /\ Len(response) = ResponseCap

\* C11: every invocation of sendVoteRequest makes one transport call, with
\* a request that carries this peer; on a nil response the call ends with
\* nothing put on the caller's channel; on a non-nil response the call ends
\* only by putting that response, carrying this peer, on the channel; and
\* no step of vote dispatch changes prevLogIndex.
C11_VoteDispatch ==
    /\ [](voteCalls = voteRuns)
    /\ [](votePc \in {"call", "send", "done"} =>
            voteReq # Nil /\ voteReq.peer = PeerName)
    /\ [][(votePc = "call" /\ votePc' # votePc) =>
              /\ voteChan' = voteChan
              /\ IF voteResp' = Nil
                 THEN votePc' = "done"
                 ELSE votePc' = "send" /\ voteResp'.peer = PeerName]_vars
    /\ [][(votePc = "send" /\ votePc' # votePc) =>
              /\ votePc' = "done"
              /\ voteResp # Nil
              /\ voteResp.peer = PeerName
              /\ voteChan' = Append(voteChan, voteResp)]_vars
    /\ [][(votePc = "done" /\ votePc' # votePc) => voteChan' = voteChan]_vars
    /\ [][(votePc' # votePc) => prevLogIndex' = prevLogIndex]_vars

\* The second invocation has ended after putting its response, carrying
\* this peer, on the caller's channel.
C11_Witness ==
    /\ votePc = "done"
    /\ voteRuns = 2
    /\ voteCalls = 2
    /\ voteResp # Nil
    /\ voteChan # <<>>
    /\ voteChan[Len(voteChan)] = voteResp
    /\ voteResp.peer = PeerName

\* C19 as stated: once the transport call has returned, sendVoteRequest can
\* end without any other party acting, so a task holding a response can
\* always make its send.
C19_SuspendsOnlyAtTransport ==
    (votePc = "send") => ENABLED VoteSend

\* C19 amended: sendVoteRequest waits at the transport call and, with a
\* non-nil response, at the send on the caller's channel. After a nil
\* response it ends at once; with a response it ends as soon as the channel
\* has room, and it waits as long as the channel has none; a call past
\* the send ends on its own.
C19_SuspendsAtTransportAndSend ==
    /\ [][(votePc = "call" /\ votePc' # votePc /\ voteResp' = Nil) =>
              votePc' = "done"]_vars
    /\ [](votePc = "send" =>
            (ENABLED VoteSend <=> Len(voteChan) < VoteChanCap))
    /\ [](votePc = "done" => ENABLED VoteExit)
    /\ [](votePc \in {"idle", "call", "send", "done"})

\* sendVoteRequest holds a response while the caller's channel is full with
\* another peer's response that the caller has not received.
C19_Witness ==
    /\ votePc = "send"
    /\ Len(voteChan) = VoteChanCap
    /\ voteChan[1].peer = OtherPeerName
    /\ voteResp # Nil

====
